---- MODULE Spec2Model ----
(***************************************************************************)
(* tsrouter: startup sequence of main() and the auth-key provisioning      *)
(* request generateAuthKey() (src/main.go), with GetAccessToken (oauth.go, *)
(* listed in src/README.md).                                               *)
(*                                                                         *)
(* Strings are TLA+ strings.  A response body is a sequence of JSON        *)
(* tokens; json.Unmarshal is the scanner + decoder below.  Time is counted *)
(* in ticks, TicksPerSecond ticks to the second.                           *)
(***************************************************************************)
EXTENDS Integers, Sequences, FiniteSets, TLC

(* ---------------------------- bounds ---------------------------------- *)
\* resolution of the clock
TicksPerSecond == 2
\* largest number of ticks that may pass between two adjacent clock reads
MaxDrift == 3

(* --------------------------- constants -------------------------------- *)
authKeyExpiryDays == 14
StatusOK == 200
tailscaleAPIBase == "https://api.tailscale.com/api/v2"
tailscaleAuthURL == "https://api.tailscale.com/api/v2/oauth/token"

(* ----------------------- inputs of a run ------------------------------ *)
\* --target-port: unset (0), a usable port, a value url.Parse rejects
TargetPorts == {0, 8080, 0 - 1}
\* --hostname: unset or set
Hostnames == {"", "webui"}
\* --log-level: the documented levels and an upper-case spelling
LogLevelFlags == {"error", "info", "debug", "DEBUG"}
\* TS_TAILNET: unset, a tailnet name, a name with an invalid URL escape
Tailnets == {"", "example", "%zz"}
\* TS_CLIENT_SECRET
ClientSecret == "xyz"
\* statuses the provider answers with
Statuses == {200, 204, 403}
\* statuses the provider answers the devices request with
TestStatuses == {200, 401}
\* causes of a transport failure of client.Do
TransportCauses == {"dial tcp: i/o timeout"}

(* ------------------------- JSON tokens -------------------------------- *)
Tok(t, name, ty, v) == [t |-> t, name |-> name, ty |-> ty, v |-> v]
LBrace == Tok("{", "", "", "")
RBrace == Tok("}", "", "", "")
NullDoc == Tok("null", "", "null", "")
Garbage == Tok("text", "", "", "<html>")
Pair(name, val) == Tok("pair", name, val.ty, val.v)

Absent == [ty |-> "absent", v |-> ""]
JNull == [ty |-> "null", v |-> ""]
JString(s) == [ty |-> "string", v |-> s]
JTrue == [ty |-> "bool", v |-> "true"]

FieldNames == <<"id", "key", "ephemeral">>
\* what the provider may put under each member name
FieldChoices ==
    [id |-> {Absent, JString("k1"), JTrue},
     key |-> {Absent, JNull, JString("k1"), JString("tskey-abc123"), JTrue},
     ephemeral |-> {Absent, JTrue, JString("k1")}]

\* the JSON object with the chosen members, in the order of FieldNames
ObjectBody(f) ==
    <<LBrace>>
    \o SelectSeq([i \in 1..Len(FieldNames) |-> Pair(FieldNames[i], f[FieldNames[i]])],
                 LAMBDA p : p.ty # "absent")
    \o <<RBrace>>

FieldSet == {FieldNames[i] : i \in 1..Len(FieldNames)}

\* bodies the provider may send: JSON objects, the document null, text, nothing
ServerBodies ==
    {ObjectBody(f) : f \in {g \in [FieldSet -> UNION {FieldChoices[n] : n \in FieldSet}] :
                                \A n \in FieldSet : g[n] \in FieldChoices[n]}}
    \cup {<<NullDoc>>, <<Garbage>>, <<>>}

\* string(bodyBytes)
BodyText(b) == [i \in 1..Len(b) |-> IF b[i].t = "pair" THEN b[i].v ELSE b[i].t]

(* ------------------------ TailscaleAuthKey ---------------------------- *)
\* zero value of the struct; isNil distinguishes the nil pointer
ZeroAuthKey == [isNil |-> FALSE, ID |-> "", Key |-> "", Ephemeral |-> FALSE]
NilAuthKey == [isNil |-> TRUE, ID |-> "", Key |-> "", Ephemeral |-> FALSE]

(* ----------------------------- errors --------------------------------- *)
NilErr == [msg |-> "", status |-> 0, body |-> <<>>, cause |-> ""]
Errorf(msg, status, body, cause) ==
    [msg |-> msg, status |-> status, body |-> body, cause |-> cause]

MsgCreate == "failed to create auth key request"
MsgSend == "failed to send auth key request"
MsgHTTP == "failed to generate auth key: HTTP"
MsgDecode == "failed to decode auth key response"

\* text of an error as %v prints it
ErrText(e) == <<e.msg>> \o (IF e.status # 0 THEN <<ToString(e.status)>> ELSE <<>>)
              \o BodyText(e.body) \o (IF e.cause # "" THEN <<e.cause>> ELSE <<>>)

(* --------------------------- json.Unmarshal --------------------------- *)
\* the scanner's pass over the whole input (checkValid): "" when valid
RECURSIVE ScanFrom(_, _, _)
ScanFrom(b, i, st) ==
    IF i > Len(b)
    THEN IF st = "end" THEN "" ELSE "unexpected end of JSON input"
    ELSE CASE st = "begin" ->
                IF b[i].t = "{" THEN ScanFrom(b, i + 1, "object")
                ELSE IF b[i].t = "null" THEN ScanFrom(b, i + 1, "end")
                ELSE "invalid character looking for beginning of value"
           [] st = "object" ->
                IF b[i].t = "pair" THEN ScanFrom(b, i + 1, "object")
                ELSE IF b[i].t = "}" THEN ScanFrom(b, i + 1, "end")
                ELSE "invalid character in object"
           [] OTHER -> "invalid character after top-level value"

checkValid(b) == ScanFrom(b, 1, "begin")

\* variant: the member "key" has no field to go to and is skipped
StoreField_NoKeyTag(acc, p) ==
    LET typeErr == IF acc.err = ""
                   THEN "json: cannot unmarshal " \o p.ty \o " into Go struct field "
                        \o p.name
                   ELSE acc.err
    IN  IF p.ty = "null" THEN acc
        ELSE IF p.name = "id"
        THEN IF p.ty = "string" THEN [acc EXCEPT !.rec.ID = p.v]
             ELSE [acc EXCEPT !.err = typeErr]
        ELSE IF p.name = "ephemeral"
        THEN IF p.ty = "bool" THEN [acc EXCEPT !.rec.Ephemeral = (p.v = "true")]
             ELSE [acc EXCEPT !.err = typeErr]
        ELSE acc

\* store one object member into the struct; err is the first saved type error
StoreField(acc, p) ==
    LET typeErr == IF acc.err = ""
                   THEN "json: cannot unmarshal " \o p.ty \o " into Go struct field "
                        \o p.name
                   ELSE acc.err
    IN  IF p.ty = "null" THEN acc
        ELSE IF p.name = "id"
        THEN IF p.ty = "string" THEN [acc EXCEPT !.rec.ID = p.v]
             ELSE [acc EXCEPT !.err = typeErr]
        ELSE IF p.name = "key"
        THEN IF p.ty = "string" THEN [acc EXCEPT !.rec.Key = p.v]
             ELSE [acc EXCEPT !.err = typeErr]
        ELSE IF p.name = "ephemeral"
        THEN IF p.ty = "bool" THEN [acc EXCEPT !.rec.Ephemeral = (p.v = "true")]
             ELSE [acc EXCEPT !.err = typeErr]
        ELSE acc

RECURSIVE DecodeFrom(_, _, _)
DecodeFrom(b, i, acc) ==
    IF i > Len(b) THEN acc
    ELSE IF b[i].t = "pair" THEN DecodeFrom(b, i + 1, StoreField(acc, b[i]))
    ELSE DecodeFrom(b, i + 1, acc)

\* json.Unmarshal(bodyBytes, &authKey): the struct as left behind and the error
Unmarshal(b) ==
    IF checkValid(b) # ""
    THEN [rec |-> ZeroAuthKey, err |-> checkValid(b)]
    ELSE DecodeFrom(b, 1, [rec |-> ZeroAuthKey, err |-> ""])

(* ------------------------------ logging ------------------------------- *)
\* setupLogging: the logrus level a --log-level value selects
ToLower(s) == IF s = "DEBUG" THEN "debug" ELSE s
setupLogging(flag) ==
    CASE ToLower(flag) = "debug" -> "debug"
      [] ToLower(flag) = "error" -> "error"
      [] OTHER -> "info"

\* logrus level numbers; "std" is the standard library logger, always printed
LevelNum == [std |-> 0, fatal |-> 1, error |-> 2, info |-> 4, debug |-> 5]
Line(lvl, msg, text) == [level |-> lvl, msg |-> msg, text |-> text]
Emitted(line, lvl) == LevelNum[line.level] <= LevelNum[lvl]
Contains(line, s) == \E i \in 1..Len(line.text) : line.text[i] = s

(* ------------------------------ requests ------------------------------ *)
\* fmt.Sprintf("%s/tailnet/%s/<leaf>", tailscaleAPIBase, tailnet)
Endpoint(tn, leaf) == <<tailscaleAPIBase, "tailnet", tn, leaf>>
\* url.Parse inside http.NewRequestWithContext
URLParses(url) == \A i \in 1..Len(url) : url[i] # "%zz"
\* url.Parse("http://localhost:<port>")
TargetParses(port) == port >= 0

NoRequest == [built |-> FALSE, method |-> "", url |-> <<>>, expirySeconds |-> 0,
              create |-> [reusable |-> FALSE, ephemeral |-> FALSE,
                          preauthorized |-> FALSE, tags |-> <<>>],
              secret |-> ""]

\* int(d.Seconds()): truncation toward zero
TruncSeconds(ticks) ==
    IF ticks >= 0 THEN ticks \div TicksPerSecond
    ELSE 0 - ((0 - ticks) \div TicksPerSecond)

ExpiryWindow == authKeyExpiryDays * 24 * 3600 * TicksPerSecond

\* the POST of generateAuthKey, built from two clock reads t1 <= t2
KeyRequest(tn, t1, t2) ==
    [built |-> TRUE, method |-> "POST", url |-> Endpoint(tn, "keys"),
     expirySeconds |-> TruncSeconds((t1 + ExpiryWindow) - t2),
     create |-> [reusable |-> FALSE, ephemeral |-> TRUE,
                 preauthorized |-> TRUE, tags |-> <<"tag:server">>],
     secret |-> ""]

DevicesRequest(tn) ==
    [NoRequest EXCEPT !.built = TRUE, !.method = "GET", !.url = Endpoint(tn, "devices")]
TokenRequest(secret) ==
    [NoRequest EXCEPT !.built = TRUE, !.method = "POST", !.url = <<tailscaleAuthURL>>,
                      !.secret = secret]

(* ------------------------------- state -------------------------------- *)
VARIABLES
    pc,         \* the statement the run is at
    entry,      \* "main": the program; "call": generateAuthKey called by itself
    cfg,        \* *Config of parseFlags
    level,      \* logrus level
    tailnet,    \* TS_TAILNET / the tailnet argument
    client,     \* the *http.Client of GetAccessToken
    ctx,        \* the context handed to generateAuthKey
    clock,      \* time.Now()
    req,        \* req of generateAuthKey
    wire,       \* requests handed to the transport, in order
    resp,       \* resp of client.Do in generateAuthKey, body as the provider sent it
    bodyBytes,  \* bodyBytes of io.ReadAll
    readErr,    \* the error of io.ReadAll, which the code discards
    ret,        \* what generateAuthKey returned
    testOK,     \* the devices request of main returned without error
    server,     \* the tsnet.Server of main
    starts,     \* calls of s.Start
    logs,       \* log lines written, whatever the level
    exit        \* <<>> while running, <<status>> once the process has exited

vars == <<pc, entry, cfg, level, tailnet, client, ctx, clock, req, wire, resp,
          bodyBytes, readErr, ret, testOK, server, starts, logs, exit>>

NoClient == [set |-> FALSE, ClientSecret |-> "", TokenURL |-> ""]
NoResponse == [received |-> FALSE, StatusCode |-> 0, Body |-> <<>>]
NoReturn == [returned |-> FALSE, authKey |-> NilAuthKey, err |-> NilErr]
NoServer == [set |-> FALSE, Hostname |-> "", AuthKey |-> "", started |-> FALSE,
             listening |-> FALSE, serving |-> FALSE]
Background == [cancellable |-> FALSE, done |-> FALSE]

Init ==
    /\ pc = "start"
    /\ entry \in {"main", "call"}
    /\ cfg = [TargetPort |-> 0, Hostname |-> "", LogLevel |-> "error"]
    /\ level = "info"
    /\ tailnet = ""
    /\ client = NoClient
    /\ ctx = Background
    /\ clock = 0
    /\ req = NoRequest
    /\ wire = <<>>
    /\ resp = NoResponse
    /\ bodyBytes = <<>>
    /\ readErr = ""
    /\ ret = NoReturn
    /\ testOK = FALSE
    /\ server = NoServer
    /\ starts = 0
    /\ logs = <<>>
    /\ exit = <<>>

\* log.Fatal / log.Fatalf: write the line, then os.Exit(1)
Fatal(msg, text) ==
    /\ logs' = Append(logs, Line("fatal", msg, text))
    /\ exit' = <<1>>
    /\ pc' = "exited"

(* ------------------------------- main --------------------------------- *)
\* parseFlags
ParseFlags ==
    /\ pc = "start" /\ entry = "main"
    /\ \E port \in TargetPorts, host \in Hostnames, lvl \in LogLevelFlags :
         /\ cfg' = [TargetPort |-> port, Hostname |-> host, LogLevel |-> lvl]
         /\ IF port = 0 \/ host = ""
            THEN exit' = <<1>> /\ pc' = "exited"
            ELSE exit' = exit /\ pc' = "setupLogging"
    /\ UNCHANGED <<entry, level, tailnet, client, ctx, clock, req, wire, resp,
                   bodyBytes, readErr, ret, testOK, server, starts, logs>>

\* setupLogging(cfg.LogLevel)
SetupLogging ==
    /\ pc = "setupLogging"
    /\ level' = setupLogging(cfg.LogLevel)
    /\ pc' = "loadEnv"
    /\ UNCHANGED <<entry, cfg, tailnet, client, ctx, clock, req, wire, resp,
                   bodyBytes, readErr, ret, testOK, server, starts, logs, exit>>

\* loadEnvConfig: a missing .env file is logged at debug level and not fatal
LoadEnvConfig ==
    /\ pc = "loadEnv"
    /\ \E found \in BOOLEAN :
         logs' = IF found THEN logs
                 ELSE Append(logs, Line("debug", "no .env file found", <<>>))
    /\ pc' = "getenv"
    /\ UNCHANGED <<entry, cfg, level, tailnet, client, ctx, clock, req, wire, resp,
                   bodyBytes, readErr, ret, testOK, server, starts, exit>>

\* tailnet := os.Getenv("TS_TAILNET"); empty is fatal
GetTailnet ==
    /\ pc = "getenv"
    /\ \E tn \in Tailnets :
         /\ tailnet' = tn
         /\ IF tn = ""
            THEN Fatal("TS_TAILNET environment variable is required", <<>>)
            ELSE logs' = logs /\ exit' = exit /\ pc' = "oauth"
    /\ UNCHANGED <<entry, cfg, level, client, ctx, clock, req, wire, resp,
                   bodyBytes, readErr, ret, testOK, server, starts>>

\* loadEnvConfig found no .env file in the working directory
EnvFileMissing == \E i \in 1..Len(logs) : logs[i].msg = "no .env file found"

\* GetAccessToken: builds the client; no request is made and no error returned
GetAccessToken ==
    /\ pc = "oauth"
    /\ client' = [set |-> TRUE, ClientSecret |-> ClientSecret,
                  TokenURL |-> tailscaleAuthURL]
    /\ ctx' = Background
    /\ \E found \in BOOLEAN :
         /\ found => ~EnvFileMissing
         /\ logs' = IF found THEN logs
                 ELSE Append(logs, Line("std",
                        "No .env file found, using system environment variables.", <<>>))
    /\ pc' = "testToken"
    /\ UNCHANGED <<entry, cfg, level, tailnet, clock, req, wire, resp,
                   bodyBytes, readErr, ret, testOK, server, starts, exit>>

\* the devices request: a request that cannot be built is nil and client.Do
\* panics on it; the first use of the client fetches the token
TestToken ==
    /\ pc = "testToken"
    /\ IF ~URLParses(Endpoint(tailnet, "devices"))
       THEN /\ exit' = <<2>> /\ pc' = "exited"
            /\ UNCHANGED <<wire, testOK, logs>>
       ELSE \E outcome \in {"token error", "transport error", "response"},
               status \in TestStatuses :
              IF outcome = "token error"
              THEN /\ wire' = Append(wire, TokenRequest(client.ClientSecret))
                   /\ testOK' = testOK
                   /\ Fatal("Failed to test OAuth token",
                            <<"oauth2: cannot fetch token">>)
              ELSE IF outcome = "transport error"
              THEN /\ wire' = wire \o <<TokenRequest(client.ClientSecret),
                                        DevicesRequest(tailnet)>>
                   /\ testOK' = testOK
                   /\ Fatal("Failed to test OAuth token", <<"dial tcp: i/o timeout">>)
              ELSE /\ wire' = wire \o <<TokenRequest(client.ClientSecret),
                                        DevicesRequest(tailnet)>>
                   /\ testOK' = TRUE
                   /\ logs' = Append(logs, Line("debug",
                                "OAuth token test request completed",
                                <<ToString(status)>>))
                   /\ exit' = exit
                   /\ pc' = "generateAuthKey"
    /\ UNCHANGED <<entry, cfg, level, tailnet, client, ctx, clock, req, resp,
                   bodyBytes, readErr, ret, server, starts>>

(* -------------------------- generateAuthKey --------------------------- *)
\* generateAuthKey called by itself, with any tailnet and a context the
\* caller may cancel
Call ==
    /\ pc = "start" /\ entry = "call"
    /\ \E tn \in Tailnets, lvl \in LogLevelFlags, cancellable \in BOOLEAN :
         /\ tailnet' = tn
         /\ level' = setupLogging(lvl)
         /\ ctx' = [cancellable |-> cancellable, done |-> FALSE]
    /\ client' = [set |-> TRUE, ClientSecret |-> ClientSecret,
                  TokenURL |-> tailscaleAuthURL]
    /\ pc' = "generateAuthKey"
    /\ UNCHANGED <<entry, cfg, clock, req, wire, resp, bodyBytes, readErr, ret,
                   testOK, server, starts, logs, exit>>

\* return of generateAuthKey
Return(key, err) ==
    /\ ret' = [returned |-> TRUE, authKey |-> key, err |-> err]
    /\ pc' = "returned"

\* main.go 107-143: endpoint, expiry from two clock reads, body, request
BuildRequest ==
    /\ pc = "generateAuthKey"
    /\ \E d \in 0..MaxDrift :
         LET r == KeyRequest(tailnet, clock, clock + d)
         IN  /\ clock' = clock + d
             /\ logs' = logs \o
                  <<Line("debug", "Generating new auth key", r.url),
                    Line("debug", "Sending auth key request",
                         r.url \o <<ToString(r.expirySeconds)>>)>>
             /\ IF URLParses(r.url)
                THEN /\ req' = r
                     /\ pc' = "do"
                     /\ ret' = ret
                ELSE /\ req' = req
                     /\ Return(NilAuthKey, Errorf(MsgCreate, 0, <<>>, "invalid URL escape"))
    /\ UNCHANGED <<entry, cfg, level, tailnet, client, ctx, wire, resp, bodyBytes,
                   readErr, testOK, server, starts, exit>>

\* variant: a failed send is tried again
DoTransportError_Retries ==
    /\ pc = "do"
    /\ Len(wire) < 4
    /\ wire' = Append(wire, req)
    /\ pc' = "do"
    /\ UNCHANGED <<entry, cfg, level, tailnet, client, ctx, clock, req, resp,
                   bodyBytes, readErr, ret, testOK, server, starts, logs, exit>>

\* main.go 145-148: client.Do fails on the transport
DoTransportError ==
    /\ pc = "do"
    /\ \E cause \in TransportCauses :
         Return(NilAuthKey, Errorf(MsgSend, 0, <<>>, cause))
    /\ wire' = Append(wire, req)
    /\ UNCHANGED <<entry, cfg, level, tailnet, client, ctx, clock, req, resp,
                   bodyBytes, readErr, testOK, server, starts, logs, exit>>

\* main.go 145-148: the context is cancelled while client.Do waits
DoCancelled ==
    /\ pc = "do"
    /\ ctx.cancellable
    /\ ctx' = [ctx EXCEPT !.done = TRUE]
    /\ Return(NilAuthKey, Errorf(MsgSend, 0, <<>>, "context canceled"))
    /\ wire' = Append(wire, req)
    /\ UNCHANGED <<entry, cfg, level, tailnet, client, clock, req, resp,
                   bodyBytes, readErr, testOK, server, starts, logs, exit>>

\* main.go 145: client.Do returns the response headers
DoResponse ==
    /\ pc = "do"
    /\ \E status \in Statuses, body \in ServerBodies :
         resp' = [received |-> TRUE, StatusCode |-> status, Body |-> body]
    /\ wire' = Append(wire, req)
    /\ pc' = "read"
    /\ UNCHANGED <<entry, cfg, level, tailnet, client, ctx, clock, req,
                   bodyBytes, readErr, ret, testOK, server, starts, logs, exit>>

\* main.go 151: io.ReadAll returns what it read and an error that is dropped
ReadAll ==
    /\ pc = "read"
    /\ \E n \in 0..Len(resp.Body),
          e \in {"", "read: connection reset by peer", "context canceled"} :
         /\ n < Len(resp.Body) => e # ""
         /\ e = "context canceled" => ctx.cancellable
         /\ bodyBytes' = SubSeq(resp.Body, 1, n)
         /\ readErr' = e
         /\ ctx' = IF e = "context canceled" THEN [ctx EXCEPT !.done = TRUE] ELSE ctx
    /\ pc' = "status"
    /\ UNCHANGED <<entry, cfg, level, tailnet, client, clock, req, wire, resp,
                   ret, testOK, server, starts, logs, exit>>

\* variant: only 4xx and 5xx statuses are taken as failures
StatusFailed_Only4xx(code) == code >= 400

\* main.go 152: resp.StatusCode != http.StatusOK
StatusFailed(code) == code # StatusOK

\* main.go 153-158: the debug line and the error of a non-200 response
HTTPFailure(code, body) ==
    [line |-> Line("debug", "Auth key request failed",
                   <<ToString(code)>> \o req.url \o BodyText(body)),
     key |-> NilAuthKey,
     err |-> Errorf(MsgHTTP, code, body, "")]

\* variant: the struct as the decoder left it is returned with the error
DecodeFailure_ReturnsPartial(u) ==
    [key |-> u.rec, err |-> Errorf(MsgDecode, 0, <<>>, u.err)]

\* main.go 162-164: the return on a decode error
DecodeFailure(u) ==
    [key |-> NilAuthKey, err |-> Errorf(MsgDecode, 0, <<>>, u.err)]

\* variant: the success line is written at info level
Generated_AtInfo(u, body) ==
    [line |-> Line("info", "Generated new auth key",
                   <<u.rec.ID>> \o req.url \o BodyText(body)),
     key |-> u.rec, err |-> NilErr]

\* main.go 166-172: the debug line and the return on success
Generated(u, body) ==
    [line |-> Line("debug", "Generated new auth key",
                   <<u.rec.ID>> \o req.url \o BodyText(body)),
     key |-> u.rec, err |-> NilErr]

\* main.go 152-172
Finish ==
    /\ pc = "status"
    /\ IF StatusFailed(resp.StatusCode)
       THEN LET f == HTTPFailure(resp.StatusCode, bodyBytes)
            IN  /\ logs' = Append(logs, f.line)
                /\ Return(f.key, f.err)
       ELSE LET u == Unmarshal(bodyBytes)
            IN  IF u.err # ""
                THEN /\ logs' = logs
                     /\ Return(DecodeFailure(u).key, DecodeFailure(u).err)
                ELSE /\ logs' = Append(logs, Generated(u, bodyBytes).line)
                     /\ Return(Generated(u, bodyBytes).key, Generated(u, bodyBytes).err)
    /\ UNCHANGED <<entry, cfg, level, tailnet, client, ctx, clock, req, wire, resp,
                   bodyBytes, readErr, testOK, server, starts, exit>>

(* ------------------------- main, continued ---------------------------- *)
\* variant: the error of generateAuthKey is logged without exiting
CheckAuthKey_IgnoresError ==
    /\ pc = "returned" /\ entry = "main"
    /\ logs' = IF ret.err # NilErr
               THEN Append(logs, Line("error", "Failed to generate auth key",
                                      ErrText(ret.err)))
               ELSE logs
    /\ pc' = "configDir"
    /\ UNCHANGED <<entry, cfg, level, tailnet, client, ctx, clock, req, wire, resp,
                   bodyBytes, readErr, ret, testOK, server, starts, exit>>

\* main.go 205-208
CheckAuthKey ==
    /\ pc = "returned" /\ entry = "main"
    /\ IF ret.err # NilErr
       THEN Fatal("Failed to generate auth key", ErrText(ret.err))
       ELSE logs' = logs /\ exit' = exit /\ pc' = "configDir"
    /\ UNCHANGED <<entry, cfg, level, tailnet, client, ctx, clock, req, wire, resp,
                   bodyBytes, readErr, ret, testOK, server, starts>>

\* main.go 211-222: os.UserConfigDir, then the tsnet.Server value
ConfigureNode ==
    /\ pc = "configDir"
    /\ \E ok \in BOOLEAN :
         IF ok
         THEN /\ server' = [NoServer EXCEPT !.set = TRUE, !.Hostname = cfg.Hostname,
                                            !.AuthKey = ret.authKey.Key]
              /\ logs' = logs /\ exit' = exit /\ pc' = "startNode"
         ELSE /\ server' = server
              /\ Fatal("failed to get user config directory", <<"$HOME is not defined">>)
    /\ UNCHANGED <<entry, cfg, level, tailnet, client, ctx, clock, req, wire, resp,
                   bodyBytes, readErr, ret, testOK, starts>>

\* main.go 224-227: s.Start()
StartNode ==
    /\ pc = "startNode"
    /\ starts' = starts + 1
    /\ \E ok \in BOOLEAN :
         IF ok
         THEN /\ server' = [server EXCEPT !.started = TRUE]
              /\ logs' = Append(logs, Line("debug", "Starting Tailscale node...", <<>>))
              /\ exit' = exit /\ pc' = "proxy"
         ELSE /\ server' = server
              /\ logs' = logs \o <<Line("debug", "Starting Tailscale node...", <<>>),
                                   Line("fatal", "Failed to start Tailscale node",
                                        <<"tsnet: start failed">>)>>
              /\ exit' = <<1>> /\ pc' = "exited"
    /\ UNCHANGED <<entry, cfg, level, tailnet, client, ctx, clock, req, wire, resp,
                   bodyBytes, readErr, ret, testOK>>

\* main.go 230-236: the target URL of the reverse proxy
CreateProxy ==
    /\ pc = "proxy"
    /\ IF TargetParses(cfg.TargetPort)
       THEN logs' = logs /\ exit' = exit /\ pc' = "listen"
       ELSE Fatal("Failed to parse target URL", <<"invalid port">>)
    /\ UNCHANGED <<entry, cfg, level, tailnet, client, ctx, clock, req, wire, resp,
                   bodyBytes, readErr, ret, testOK, server, starts>>

\* main.go 239-243: s.ListenTLS, then the info line
Listen ==
    /\ pc = "listen"
    /\ \E ok \in BOOLEAN :
         IF ok
         THEN /\ server' = [server EXCEPT !.listening = TRUE]
              /\ logs' = Append(logs, Line("info", "Service available at",
                                           <<cfg.Hostname, tailnet,
                                             ToString(cfg.TargetPort)>>))
              /\ exit' = exit /\ pc' = "serve"
         ELSE /\ server' = server
              /\ Fatal("Failed to create Tailscale listener", <<"listen failed">>)
    /\ UNCHANGED <<entry, cfg, level, tailnet, client, ctx, clock, req, wire, resp,
                   bodyBytes, readErr, ret, testOK, starts>>

\* main.go 244: http.Serve starts accepting
Serve ==
    /\ pc = "serve"
    /\ server' = [server EXCEPT !.serving = TRUE]
    /\ pc' = "serving"
    /\ UNCHANGED <<entry, cfg, level, tailnet, client, ctx, clock, req, wire, resp,
                   bodyBytes, readErr, ret, testOK, starts, logs, exit>>

\* main.go 244-246: http.Serve returns, always with an error
ServeFails ==
    /\ pc = "serving"
    /\ server' = [server EXCEPT !.serving = FALSE]
    /\ Fatal("Failed to serve proxy", <<"accept failed">>)
    /\ UNCHANGED <<entry, cfg, level, tailnet, client, ctx, clock, req, wire, resp,
                   bodyBytes, readErr, ret, testOK, starts>>

Next ==
    \/ ParseFlags
    \/ SetupLogging
    \/ LoadEnvConfig
    \/ GetTailnet
    \/ GetAccessToken
    \/ TestToken
    \/ Call
    \/ BuildRequest
    \/ DoTransportError
    \/ DoCancelled
    \/ DoResponse
    \/ ReadAll
    \/ Finish
    \/ CheckAuthKey
    \/ ConfigureNode
    \/ StartNode
    \/ CreateProxy
    \/ Listen
    \/ Serve
    \/ ServeFails

Spec == Init /\ [][Next]_vars

(* ------------------------ derived observations ----------------------- *)
\* key-creation POSTs handed to the transport
KeyPosts ==
    Cardinality({i \in 1..Len(wire) :
                   wire[i].method = "POST" /\ wire[i].url = Endpoint(tailnet, "keys")})

\* the state of the provisioning operation
ProvState ==
    IF ~ret.returned THEN "not requested"
    ELSE IF ret.err = NilErr /\ ~ret.authKey.isNil THEN "Provisioned"
    ELSE "Failed"

\* the body read is a JSON object holding id, key and ephemeral once each,
\* with the types of the record
Members(b, name) == {i \in 2..(Len(b) - 1) : b[i].t = "pair" /\ b[i].name = name}
Member(b, name) == b[CHOOSE i \in Members(b, name) : TRUE]
WellFormed(b) ==
    /\ Len(b) >= 2 /\ b[1] = LBrace /\ b[Len(b)] = RBrace
    /\ \A i \in 2..(Len(b) - 1) : b[i].t = "pair"
    /\ \A n \in FieldSet : Cardinality(Members(b, n)) = 1
    /\ Member(b, "id").ty = "string"
    /\ Member(b, "key").ty = "string"
    /\ Member(b, "ephemeral").ty = "bool"

\* the body read is valid JSON for the record: the document null, or an
\* object whose known members are null or of the field's type
TypeFits(p) ==
    \/ p.ty = "null"
    \/ p.name \in {"id", "key"} /\ p.ty = "string"
    \/ p.name = "ephemeral" /\ p.ty = "bool"
    \/ p.name \notin FieldSet
ValidForRecord(b) ==
    \/ b = <<NullDoc>>
    \/ /\ Len(b) >= 2 /\ b[1] = LBrace /\ b[Len(b)] = RBrace
       /\ \A i \in 2..(Len(b) - 1) : b[i].t = "pair" /\ TypeFits(b[i])

\* a transport failure hit the key-creation request: client.Do failed without
\* a cancellation, or the connection broke while the body was read
TransportFailed ==
    \/ req.built /\ ret.returned /\ ~resp.received /\ ~ctx.done
    \/ readErr = "read: connection reset by peer"

\* the key the provider issued in this run, if any
KeyIssued ==
    /\ resp.received /\ resp.StatusCode = 200
    /\ \E i \in 1..Len(resp.Body) :
         resp.Body[i].t = "pair" /\ resp.Body[i].name = "key" /\ resp.Body[i].ty = "string"
IssuedKey ==
    resp.Body[CHOOSE i \in 1..Len(resp.Body) :
                resp.Body[i].t = "pair" /\ resp.Body[i].name = "key"].v

(* ------------------------------ claims -------------------------------- *)
\* C1: after a response whose status is not 200, generateAuthKey returns no
\* record and an error "failed to generate auth key: HTTP <status> - <body>"
\* with the status received and the body bytes read; nothing is decoded.
C1_Non200IsProvisioningError ==
    (ret.returned /\ resp.received /\ resp.StatusCode # 200) =>
        /\ ret.authKey = NilAuthKey
        /\ ret.err.msg = MsgHTTP
        /\ ret.err.status = resp.StatusCode
        /\ ret.err.body = bodyBytes

C1_Witness ==
    /\ ret.returned /\ resp.StatusCode = 204
    /\ WellFormed(bodyBytes)
    /\ ret.err.status = 204 /\ ret.err.body = bodyBytes

\* C2: after a 200 response whose body, as read, is a well-formed JSON object,
\* generateAuthKey returns no error and a record whose key, id and ephemeral
\* equal the members of the body; the AuthKey of the tsnet.Server is that key.
C2_RecordEqualsBody ==
    (ret.returned /\ resp.received /\ resp.StatusCode = 200 /\ WellFormed(bodyBytes)) =>
        /\ ret.err = NilErr
        /\ ~ret.authKey.isNil
        /\ ret.authKey.Key = Member(bodyBytes, "key").v
        /\ ret.authKey.ID = Member(bodyBytes, "id").v
        /\ ret.authKey.Ephemeral = (Member(bodyBytes, "ephemeral").v = "true")
        /\ server.set => server.AuthKey = Member(bodyBytes, "key").v

C2_Witness ==
    /\ server.started /\ server.AuthKey = "tskey-abc123"
    /\ ret.authKey.ID = "k1" /\ ret.authKey.Ephemeral
    /\ WellFormed(bodyBytes)

\* C3: after a 200 response whose body, as read, is not valid JSON for the
\* record, generateAuthKey returns the nil record and the error "failed to
\* decode auth key response".
C3_DecodeErrorNoRecord ==
    (ret.returned /\ resp.received /\ resp.StatusCode = 200
       /\ ~ValidForRecord(bodyBytes)) =>
        /\ ret.authKey = NilAuthKey
        /\ ret.err.msg = MsgDecode

\* a type error after the decoder has already stored the key
C3_Witness ==
    /\ ret.returned /\ resp.StatusCode = 200 /\ readErr = ""
    /\ ret.err.msg = MsgDecode
    /\ Unmarshal(bodyBytes).rec.Key = "tskey-abc123"

\* C4: whenever a transport failure hits the key-creation request,
\* generateAuthKey returns no record and the send error, never a record, a
\* provisioning error or a decode error.
C4_TransportFailureIsNetworkError ==
    (ret.returned /\ TransportFailed) =>
        /\ ret.authKey = NilAuthKey
        /\ ret.err.msg = MsgSend

\* C5: every step leaves at most one key-creation POST on the wire and at
\* most one call of s.Start; once generateAuthKey has returned, its result
\* never changes, and the AuthKey of the tsnet.Server, once set, stays.
C5_OnePostOneOutcome ==
    [][ /\ KeyPosts' <= 1
        /\ starts' <= 1
        /\ ProvState # "not requested" => (ret' = ret /\ KeyPosts' = KeyPosts)
        /\ server.set => server'.AuthKey = server.AuthKey ]_vars

C5_Witness ==
    /\ pc = "serving" /\ KeyPosts = 1 /\ starts = 1
    /\ ProvState = "Provisioned" /\ server.AuthKey = ret.authKey.Key

\* C6: in a run of main every step is taken by a process that has not exited,
\* and leads to a state where: a key-creation POST was sent only with the
\* client built and the devices request answered; the node was started or
\* listens only after generateAuthKey returned a record; a fatal log line or
\* an error of generateAuthKey that main has seen means the process has
\* exited, with a non-zero status.
C6_StateOK ==
    entry = "main" =>
        /\ KeyPosts > 0 => (client.set /\ testOK)
        /\ req.built => testOK
        /\ (starts > 0 \/ server.set \/ server.started \/ server.listening
              \/ server.serving) => ProvState = "Provisioned"
        /\ server.listening => server.started
        /\ server.serving => server.listening
        /\ (\E i \in 1..Len(logs) : logs[i].level = "fatal") => exit = <<1>>
        /\ (ProvState = "Failed" /\ pc # "returned") => exit = <<1>>
        /\ exit # <<>> => (exit[1] # 0 /\ pc = "exited")
C6_OrderedAndFatal ==
    [][ exit = <<>> /\ C6_StateOK' ]_vars

C6_Witness ==
    /\ entry = "main" /\ exit = <<1>>
    /\ ret.err.msg = MsgHTTP /\ testOK /\ KeyPosts = 1
    /\ starts = 0 /\ ~server.set

\* C7: with an empty tailnet no key-creation request is built or sent: no
\* request for the path /tailnet//keys exists.
C7_EmptyTailnetFailsFast ==
    /\ req.url # Endpoint("", "keys")
    /\ \A i \in 1..Len(wire) : wire[i].url # Endpoint("", "keys")

\* C8: when the context was cancelled while the request was in flight,
\* generateAuthKey returns no record and an error that is neither the send
\* error, the HTTP error nor the decode error, and at most one POST was sent.
C8_CancelledIsDistinct ==
    (ret.returned /\ ctx.done) =>
        /\ ret.authKey = NilAuthKey
        /\ ret.err # NilErr
        /\ ret.err.msg \notin {MsgSend, MsgHTTP, MsgDecode}
        /\ KeyPosts <= 1

\* C9: at a level below debug, no line that is printed contains the key the
\* provider issued or the client secret.
C9_NoSecretBelowDebug ==
    level # "debug" =>
        \A i \in 1..Len(logs) :
            Emitted(logs[i], level) =>
                /\ ~Contains(logs[i], ClientSecret)
                /\ KeyIssued => ~Contains(logs[i], IssuedKey)

C9_Witness ==
    /\ level = "info" /\ pc = "serving"
    /\ KeyIssued /\ IssuedKey = "tskey-abc123" /\ server.AuthKey = IssuedKey
    /\ \E i \in 1..Len(logs) : Emitted(logs[i], level)
    /\ \E i \in 1..Len(logs) : Contains(logs[i], IssuedKey)

\* C10: the request built by generateAuthKey has a positive expirySeconds
\* within one second of 14 days (1,209,600 s) and the capabilities
\* reusable=false, ephemeral=true, preauthorized=true, tags=["tag:server"].
C10_ExpirySeconds ==
    (req.built /\ req.url = Endpoint(tailnet, "keys")) =>
        /\ req.expirySeconds > 0
        /\ req.expirySeconds >= 1209600 - 1
        /\ req.expirySeconds <= 1209600 + 1
        /\ req.create = [reusable |-> FALSE, ephemeral |-> TRUE,
                         preauthorized |-> TRUE, tags |-> <<"tag:server">>]

====
